---- MODULE Spec2Model ----
(***************************************************************************)
(* dockerclean (src/dockerclean.py): the driver main, the duration parser  *)
(* Duration, the age comparator older_than, the command executor           *)
(* run_command and the four pruning procedures, together with the part of  *)
(* the container runtime that the commands they issue read and change.     *)
(*                                                                         *)
(* Time is counted in minutes.  A string that the code only compares or    *)
(* forwards is a TLA+ string; a string that the code takes apart is a      *)
(* sequence: of characters for the duration argument, of tokens for an     *)
(* image identifier ("sha256:" being one token).  An output line of an     *)
(* inspect command is the tuple of the fields that split("|", n) yields.   *)
(***************************************************************************)
EXTENDS Integers, Sequences, FiniteSets, TLC

\* ------------------------------------------------------------------ bounds
\* Timestamps of the runtime's records lie in 0..MaxTime.
MaxTime == 2
\* The clock starts right after the latest timestamp and advances at most
\* MaxTicks times.
MaxTicks == 1
\* How many times in succession a procedure is called on its own.
MaxRuns == 2
\* The longest duration argument.
MaxLen == 5

Times == 0..MaxTime
Now0 == MaxTime + 1
MaxNow == Now0 + MaxTicks

\* ---------------------------------------------------------------- Duration
Digits == {"0", "1", "2", "3", "4", "5", "6", "7", "8", "9"}
Units == {"m", "h"}
\* The characters duration arguments are drawn from.
Alphabet == {"0", "1", "2", "3", "4", "9", "h", "m", "s"}
\* The strings of at most n characters.
DurationArgs(n) == UNION {[1..k -> Alphabet] : k \in 0..n}

DigitVal(c) ==
  CASE c = "0" -> 0 [] c = "1" -> 1 [] c = "2" -> 2 [] c = "3" -> 3 [] c = "4" -> 4
    [] c = "5" -> 5 [] c = "6" -> 6 [] c = "7" -> 7 [] c = "8" -> 8 [] c = "9" -> 9

\* int(match.group(1))
RECURSIVE int(_)
int(ds) == IF ds = << >> THEN 0
           ELSE 10 * int(SubSeq(ds, 1, Len(ds) - 1)) + DigitVal(ds[Len(ds)])

\* The length of the longest run of digits s starts with: what the greedy \d+
\* of Duration.pattern consumes.
RECURSIVE DigitRun(_)
DigitRun(s) == IF s # << >> /\ Head(s) \in Digits THEN 1 + DigitRun(Tail(s)) ELSE 0

\* re.match(Duration.pattern, s): the pattern (\d+)([mh]) is matched at the
\* start of s and what follows the match is not looked at.  \d+ cannot give a
\* digit back to [mh], so the match is the whole digit run and the character
\* after it.
match(s) ==
  LET k == DigitRun(s)
  IN  IF k >= 1 /\ Len(s) > k /\ s[k + 1] \in Units
      THEN [matched |-> TRUE, digits |-> SubSeq(s, 1, k), unit |-> s[k + 1]]
      ELSE [matched |-> FALSE, digits |-> << >>, unit |-> ""]

\* Duration.__new__: ok = FALSE is the ValueError, minutes the timedelta.
Duration(s) ==
  LET m == match(s)
  IN  IF ~m.matched THEN [ok |-> FALSE, minutes |-> 0]
      ELSE IF m.unit = "m" THEN [ok |-> TRUE, minutes |-> int(m.digits)]
      ELSE [ok |-> TRUE, minutes |-> 60 * int(m.digits)]

NoDuration == [ok |-> FALSE, minutes |-> 0]

\* -------------------------------------------------------------- older_than
\* A timestamp string of the runtime: the instant it denotes and its textual
\* form.  "rfc3339" is what dateutil parses, "goword" is the form of network
\* inspection, an instant followed by one more word ("... +0000 UTC"), and
\* "bad" is a text that is no timestamp (such as an empty CreatedAt).
\* Every form the runtime prints carries its UTC offset, so t is a timezone
\* aware datetime and the comparison with now(tz=t.tzinfo) is one of instants.
Stamp(f, t) == [fmt |-> f, t |-> t]

\* dateutil.parser.parse: whether it raises ValueError.
parseRaises(ts) == ts.fmt # "rfc3339"

\* timestamp.rpartition(" ")[0]: the text before the last space.
rpartition(ts) == IF ts.fmt = "goword" THEN Stamp("rfc3339", ts.t) ELSE ts

\* Whether older_than raises: both parses failed.
olderThanRaises(ts) == parseRaises(ts) /\ parseRaises(rpartition(ts))

\* older_than(timestamp, age), with the clock's reading: t < now - age.
LessThanOrEqual(t, c) == t <= c
LessThan(t, c) == t < c
older_than(ts, age, clock) ==
  LET t == IF parseRaises(ts) THEN rpartition(ts).t ELSE ts.t
  IN  LessThan(t, clock - age.minutes)

\* ------------------------------------------------------------- run_command
\* How an external command ends.
Outcomes == {"ok", "nonzero", "timeout"}

\* run_command with check=True (every call of the program): whether it raises
\* (CalledProcessError for a non-zero exit, TimeoutExpired or, on Python 2,
\* CalledProcessError with code -1 for a timeout).
UncheckedRun(res) == FALSE
Raises(res) == res # "ok"

\* .stdout.strip().splitlines() of a command that listed `lines`.
Stdout(res, lines) == IF res = "ok" THEN lines ELSE {}

\* Python's truth value of a string or None.
None == "<None>"
Truthy(s) == s # "" /\ s # None

\* ------------------------------------------------------------------- state
ContainerIds == {"c1", "c2"}
ImageHexes == {"a", "b", "c"}
NetworkIds == {"n1", "n2"}
\* Volume names: one a user chose, one of 63 characters, and one of 64, the
\* length of the names the runtime generates.
NameShort == "my-data"
Name63 == "0123456789abcdef0123456789abcdef0123456789abcdef0123456789abcde"
Name64 == "0123456789abcdef0123456789abcdef0123456789abcdef0123456789abcdef"
VolumeNames == {NameShort, Name63, Name64}

VARIABLES
  pc,          \* where the program is
  argv,        \* the grace period argument (or $GRACE_PERIOD), a string
  aggressive,  \* args.aggressive
  grace,       \* args.grace_period, what Duration returned
  now,         \* the wall clock, what datetime.datetime.now() returns
  containers,  \* the runtime's containers
  images,      \* the runtime's images
  networks,    \* the runtime's networks
  volumes,     \* the runtime's volumes
  idForm,      \* how the runtime prints image identifiers
  loc,         \* the local variables of the running procedure
  ret,         \* len() of the tuple the last procedure returned
  cutoff,      \* older_than's local cutoff, as last computed ({} before)
  log,         \* the commands issued, the lines printed, the exception raised
  runs,        \* how many times the procedure under test was called
  mark         \* when it was called again: the log's length, the cutoff of the
               \* call before and the timestamps of the records that one kept

rt == <<containers, images, networks, volumes>>
cfg == <<argv, aggressive, grace, idForm>>
harness == <<runs, mark>>
vars == <<pc, argv, aggressive, grace, now, containers, images, networks, volumes,
          idForm, loc, ret, cutoff, log, runs, mark>>

\* ---------------------------------------------------------------- the log
Cmd(c, a, res) == [ev |-> "cmd", cmd |-> c, args |-> a, res |-> res, n |-> 0]
Printed(step, n) == [ev |-> "print", cmd |-> step, args |-> {}, res |-> "ok", n |-> n]
Raised(exc) == [ev |-> "raise", cmd |-> exc, args |-> {}, res |-> "ok", n |-> 0]

EmptyLoc ==
  [running_containers |-> {}, all_containers |-> {}, non_running |-> {},
   to_prune |-> {}, all_images |-> {}, nominally_used_images |-> {},
   image_data |-> << >>, pruneable_images |-> {}, all_networks |-> {},
   prunable_networks |-> {}, dangling_volumes |-> {}]

Goto(p, l, r, lg) == pc' = p /\ loc' = l /\ ret' = r /\ log' = lg

\* An exception leaves the procedure and main: nothing catches it.
Propagate(lg) == Goto("failed", loc, ret, lg)

\* The cutoff older_than computes when it is called on `data`'s records.
Evaluated(data) == IF data = {} THEN cutoff ELSE {now - grace.minutes}

\* -------------------------------------------------------- prune_containers
RunningContainers == {c \in ContainerIds : containers[c].status = "running"}
LiveContainers == {c \in ContainerIds : containers[c].status \in {"running", "exited"}}

\* "docker container ls -q --no-trunc"
prune_containers_ls ==
  /\ pc = "c_ls"
  /\ \E res \in Outcomes :
       LET lg == Append(log, Cmd("docker container ls -q --no-trunc", {}, res))
       IN  IF Raises(res) THEN Propagate(lg)
           ELSE Goto("c_lsa",
                     [EmptyLoc EXCEPT !.running_containers = Stdout(res, RunningContainers)],
                     ret, lg)
  /\ UNCHANGED <<rt, cfg, harness, now, cutoff>>

\* non_running = all_containers.difference(running_containers)
AllOfThem(all, running) == all
NonRunning(all, running) == all \ running

\* "docker container ls -a -q --no-trunc", non_running, and the return of the
\* empty tuple when non_running is empty (container_data and to_prune are).
prune_containers_ls_all ==
  /\ pc = "c_lsa"
  /\ \E res \in Outcomes :
       LET lg == Append(log, Cmd("docker container ls -a -q --no-trunc", {}, res))
           all == Stdout(res, LiveContainers)
           non == NonRunning(all, loc.running_containers)
           l == [loc EXCEPT !.all_containers = all, !.non_running = non]
       IN  IF Raises(res) THEN Propagate(lg)
           ELSE IF non = {} THEN Goto("c_ret", l, 0, lg)
           ELSE Goto("c_inspect", l, ret, lg)
  /\ UNCHANGED <<rt, cfg, harness, now, cutoff>>

\* The guard of the deletion call: `if not to_prune: return tuple()`.
AlwaysDelete(s) == FALSE
Nothing(s) == s = {}

\* "docker container inspect --format '{{.ID}}|{{.State.FinishedAt}}'" of
\* non_running, then to_prune.
prune_containers_inspect ==
  /\ pc = "c_inspect"
  /\ \E res \in Outcomes :
       LET lg == Append(log, Cmd("docker container inspect", loc.non_running, res))
           container_data == Stdout(res, {<<c, containers[c].finished>> : c \in loc.non_running})
           to_prune == {d[1] : d \in {e \in container_data : older_than(e[2], grace, now)}}
           l == [loc EXCEPT !.to_prune = to_prune]
       IN  IF Raises(res) THEN Propagate(lg) /\ cutoff' = cutoff
           ELSE IF \E d \in container_data : olderThanRaises(d[2])
                THEN Propagate(Append(lg, Raised("ValueError"))) /\ cutoff' = cutoff
           ELSE /\ cutoff' = Evaluated(container_data)
                /\ IF Nothing(to_prune) THEN Goto("c_ret", l, 0, lg)
                   ELSE Goto("c_rm", l, ret, lg)
  /\ UNCHANGED <<rt, cfg, harness, now>>

\* Without -f the runtime refuses to remove a running container.
RmConflict(ids) == ids \cap RunningContainers # {}

\* "docker rm" of to_prune: the runtime removes the containers and prints one
\* line for each.
prune_containers_rm ==
  /\ pc = "c_rm"
  /\ \E res \in Outcomes :
       LET lg == Append(log, Cmd("docker rm", loc.to_prune, res))
       IN  /\ RmConflict(loc.to_prune) => res # "ok"
           /\ IF Raises(res) THEN Propagate(lg)
              ELSE Goto("c_ret", loc, Cardinality(Stdout(res, loc.to_prune)), lg)
           /\ containers' = IF res = "ok"
                            THEN [c \in ContainerIds |->
                                    IF c \in loc.to_prune
                                    THEN [containers[c] EXCEPT !.status = "removed"]
                                    ELSE containers[c]]
                            ELSE containers
  /\ UNCHANGED <<images, networks, volumes, cfg, harness, now, cutoff>>

prune_containers ==
  \/ prune_containers_ls
  \/ prune_containers_ls_all
  \/ prune_containers_inspect
  \/ prune_containers_rm

\* ----------------------------------------------------------- prune_volumes
\* The threshold of `len(v.name) < 64`.
AnonNameLen == 64

DanglingVolumes == {v \in VolumeNames : volumes[v].status = "present" /\ volumes[v].dangling}

\* "docker volume ls -q -f dangling=true", and the return of the empty tuple
\* when nothing is listed.
prune_volumes_ls ==
  /\ pc = "v_ls"
  /\ \E res \in Outcomes :
       LET lg == Append(log, Cmd("docker volume ls -q -f dangling=true", {}, res))
           dangling == Stdout(res, DanglingVolumes)
           l == [EmptyLoc EXCEPT !.dangling_volumes = dangling]
       IN  IF Raises(res) THEN Propagate(lg)
           ELSE IF dangling = {} THEN Goto("v_ret", l, 0, lg)
           ELSE Goto("v_inspect", l, ret, lg)
  /\ UNCHANGED <<rt, cfg, harness, now, cutoff>>

\* named_volumes: `len(v.name) < 64`.
NamedBelowOrAt(name) == Len(name) <= AnonNameLen
Named(name) == Len(name) < AnonNameLen

\* old_volumes, named_volumes and to_prune of prune_volumes.
VolumesToPrune(volume_data) ==
  LET old_volumes == {d[1] : d \in {e \in volume_data : older_than(e[2], grace, now)}}
      named_volumes == {d[1] : d \in {e \in volume_data : Named(e[1])}}
  IN  IF ~aggressive THEN old_volumes \ named_volumes ELSE old_volumes

\* "docker volume inspect --format '{{.Name}}|{{.CreatedAt}}'" of
\* dangling_volumes, then to_prune.
prune_volumes_inspect ==
  /\ pc = "v_inspect"
  /\ \E res \in Outcomes :
       LET lg == Append(log, Cmd("docker volume inspect", loc.dangling_volumes, res))
           volume_data == Stdout(res, {<<v, volumes[v].created>> : v \in loc.dangling_volumes})
           to_prune == VolumesToPrune(volume_data)
           l == [loc EXCEPT !.to_prune = to_prune]
       IN  IF Raises(res) THEN Propagate(lg) /\ cutoff' = cutoff
           ELSE IF \E d \in volume_data : olderThanRaises(d[2])
                THEN Propagate(Append(lg, Raised("ValueError"))) /\ cutoff' = cutoff
           ELSE /\ cutoff' = Evaluated(volume_data)
                /\ IF Nothing(to_prune) THEN Goto("v_ret", l, 0, lg)
                   ELSE Goto("v_rm", l, ret, lg)
  /\ UNCHANGED <<rt, cfg, harness, now>>

\* "docker volume rm -f" of to_prune.
prune_volumes_rm ==
  /\ pc = "v_rm"
  /\ \E res \in Outcomes :
       LET lg == Append(log, Cmd("docker volume rm -f", loc.to_prune, res))
       IN  /\ IF Raises(res) THEN Propagate(lg)
              ELSE Goto("v_ret", loc, Cardinality(Stdout(res, loc.to_prune)), lg)
           /\ volumes' = IF res = "ok"
                         THEN [v \in VolumeNames |->
                                 IF v \in loc.to_prune
                                 THEN [volumes[v] EXCEPT !.status = "removed"]
                                 ELSE volumes[v]]
                         ELSE volumes
  /\ UNCHANGED <<containers, images, networks, cfg, harness, now, cutoff>>

prune_volumes ==
  \/ prune_volumes_ls
  \/ prune_volumes_inspect
  \/ prune_volumes_rm

\* ---------------------------------------------------------- prune_networks
ReservedNames == {"bridge", "host", "none"}
LiveNetworks == {n \in NetworkIds : networks[n].status = "present"}

\* What the template {{.Containers}} prints: Go prints an empty map as "map[]".
FormatContainers(attached) == IF attached = {} THEN "map[]" ELSE "map[endpoints]"

\* NetworkData.__init__: the containers field, with "map[]" turned into None.
NetworkContainers(text) == IF text = "map[]" THEN None ELSE text

\* "docker network ls -q --no-trunc"; with nothing listed, network_data is
\* empty and so is prunable_networks: the empty tuple is returned.
prune_networks_ls ==
  /\ pc = "n_ls"
  /\ \E res \in Outcomes :
       LET lg == Append(log, Cmd("docker network ls -q --no-trunc", {}, res))
           all_networks == Stdout(res, LiveNetworks)
           l == [EmptyLoc EXCEPT !.all_networks = all_networks]
       IN  IF Raises(res) THEN Propagate(lg)
           ELSE IF all_networks = {} THEN Goto("n_ret", l, 0, lg)
           ELSE Goto("n_inspect", l, ret, lg)
  /\ UNCHANGED <<rt, cfg, harness, now, cutoff>>

\* reserved_networks: `i.name in ("bridge", "host", "none")`.
NoneReserved(name) == FALSE
Reserved(name) == name \in ReservedNames

\* used_networks, old_networks, reserved_networks and prunable_networks, of
\* network_data's lines <<id, created, containers, name>>.
PrunableNetworks(network_data) ==
  LET used_networks == {d[1] : d \in {e \in network_data : Truthy(NetworkContainers(e[3]))}}
      old_networks == {d[1] : d \in {e \in network_data : older_than(e[2], grace, now)}}
      reserved_networks == {d[1] : d \in {e \in network_data : Reserved(e[4])}}
  IN  (old_networks \ used_networks) \ reserved_networks

\* "docker network inspect --format
\* '{{.ID}}|{{.Created}}|{{.Containers}}|{{.Name}}'" of all_networks.
prune_networks_inspect ==
  /\ pc = "n_inspect"
  /\ \E res \in Outcomes :
       LET lg == Append(log, Cmd("docker network inspect", loc.all_networks, res))
           network_data ==
             Stdout(res, {<<n, networks[n].created, FormatContainers(networks[n].attached),
                            networks[n].name>> : n \in loc.all_networks})
           prunable == PrunableNetworks(network_data)
           l == [loc EXCEPT !.prunable_networks = prunable]
       IN  IF Raises(res) THEN Propagate(lg) /\ cutoff' = cutoff
           ELSE IF \E d \in network_data : olderThanRaises(d[2])
                THEN Propagate(Append(lg, Raised("ValueError"))) /\ cutoff' = cutoff
           ELSE /\ cutoff' = Evaluated(network_data)
                /\ IF Nothing(prunable) THEN Goto("n_ret", l, 0, lg)
                   ELSE Goto("n_rm", l, ret, lg)
  /\ UNCHANGED <<rt, cfg, harness, now>>

\* "docker network rm" of prunable_networks.
prune_networks_rm ==
  /\ pc = "n_rm"
  /\ \E res \in Outcomes :
       LET lg == Append(log, Cmd("docker network rm", loc.prunable_networks, res))
       IN  /\ IF Raises(res) THEN Propagate(lg)
              ELSE Goto("n_ret", loc, Cardinality(Stdout(res, loc.prunable_networks)), lg)
           /\ networks' = IF res = "ok"
                          THEN [n \in NetworkIds |->
                                  IF n \in loc.prunable_networks
                                  THEN [networks[n] EXCEPT !.status = "removed"]
                                  ELSE networks[n]]
                          ELSE networks
  /\ UNCHANGED <<containers, images, volumes, cfg, harness, now, cutoff>>

prune_networks ==
  \/ prune_networks_ls
  \/ prune_networks_inspect
  \/ prune_networks_rm

\* ------------------------------------------------------------ prune_images
\* An identifier as the runtime prints it: with the "sha256:" prefix or bare.
\* The empty Parent of an image without parent is the empty string.
Render(hex, prefixed) ==
  IF hex = "" THEN << >> ELSE IF prefixed THEN <<"sha256:", hex>> ELSE <<hex>>

\* The image an identifier given to a command names: the runtime takes both
\* forms.
Resolve(id) == id[Len(id)]

\* ImageData.hashfix
hashfix(hash) == IF Len(hash) >= 1 /\ hash[1] = "sha256:" THEN Tail(hash) ELSE hash

LiveImages == {h \in ImageHexes : images[h].status = "present"}

\* What the template {{.RepoTags}} prints: Go prints a list of strings between
\* brackets, the empty list as "[]".
FormatRepoTags(tags) == IF tags = {} THEN "[]" ELSE "[app:latest]"

\* ImageData.__init__, of the fields of a line of "docker image inspect".
ImageData(id, parent, created, repo_tags) ==
  [id |-> hashfix(id), parent |-> hashfix(parent), created |-> created,
   repo_tags |-> repo_tags]

\* The lineage of image_id: `line`, the image and the images its parent links
\* lead to.  LineRaises is the KeyError of `image_data[...]`.
RECURSIVE LineRaises(_, _)
LineRaises(image_id, image_data) ==
  \/ image_id \notin DOMAIN image_data
  \/ /\ image_data[image_id].parent # << >>
     /\ LineRaises(image_data[image_id].parent, image_data)

ParentOnly(image_id, image_data) ==
  {image_id} \cup (IF image_data[image_id].parent # << >>
                   THEN {image_data[image_id].parent}
                   ELSE {})

RECURSIVE Line(_, _)
Line(image_id, image_data) ==
  {image_id} \cup (IF image_data[image_id].parent # << >>
                   THEN Line(image_data[image_id].parent, image_data)
                   ELSE {})

\* all_used_images, all_untagged_images, all_old_images and pruneable_images.
PruneableImages(nominally_used_images, image_data) ==
  LET all_used_images == UNION {Line(i, image_data) : i \in nominally_used_images}
      all_untagged_images ==
        {image_data[k].id : k \in {j \in DOMAIN image_data : ~Truthy(image_data[j].repo_tags)}}
      all_old_images ==
        {image_data[k].id :
           k \in {j \in DOMAIN image_data : older_than(image_data[j].created, grace, now)}}
      pruneable_images == all_old_images \ all_used_images
  IN  IF ~aggressive THEN pruneable_images \cap all_untagged_images ELSE pruneable_images

\* From the lineages to the return of the empty tuple or the deletion call:
\* the code after image_data is built, which issues no command.
SelectImages(l, lg) ==
  IF \E i \in l.nominally_used_images : LineRaises(i, l.image_data)
  THEN Propagate(Append(lg, Raised("KeyError"))) /\ cutoff' = cutoff
  ELSE IF \E k \in DOMAIN l.image_data : olderThanRaises(l.image_data[k].created)
  THEN Propagate(Append(lg, Raised("ValueError"))) /\ cutoff' = cutoff
  ELSE LET pruneable == PruneableImages(l.nominally_used_images, l.image_data)
           l2 == [l EXCEPT !.pruneable_images = pruneable]
       IN  /\ cutoff' = Evaluated(DOMAIN l.image_data)
           /\ IF Nothing(pruneable) THEN Goto("i_ret", l2, 0, lg)
              ELSE Goto("i_rmi", l2, ret, lg)

\* With all_images empty image_data is empty and no command is issued.
InspectImagesOrSelect(l, lg) ==
  IF l.all_images = {} THEN SelectImages(l, lg)
  ELSE Goto("i_inspect", l, ret, lg) /\ cutoff' = cutoff

\* "docker image ls -a -q --no-trunc"
prune_images_ls ==
  /\ pc = "i_ls"
  /\ \E res \in Outcomes :
       LET lg == Append(log, Cmd("docker image ls -a -q --no-trunc", {}, res))
           all_images == {hashfix(i) : i \in Stdout(res, {Render(h, idForm.id) : h \in LiveImages})}
       IN  IF Raises(res) THEN Propagate(lg)
           ELSE Goto("i_ps", [EmptyLoc EXCEPT !.all_images = all_images], ret, lg)
  /\ UNCHANGED <<rt, cfg, harness, now, cutoff>>

\* "docker ps -a -q --no-trunc"; with no container nominally_used_images is
\* empty.
prune_images_ps ==
  /\ pc = "i_ps"
  /\ \E res \in Outcomes :
       LET lg == Append(log, Cmd("docker ps -a -q --no-trunc", {}, res))
           all_containers == Stdout(res, LiveContainers)
           l == [loc EXCEPT !.all_containers = all_containers]
       IN  IF Raises(res) THEN Propagate(lg) /\ cutoff' = cutoff
           ELSE IF all_containers = {} THEN InspectImagesOrSelect(l, lg)
           ELSE Goto("i_used", l, ret, lg) /\ cutoff' = cutoff
  /\ UNCHANGED <<rt, cfg, harness, now>>

\* "docker inspect --format '{{.Image}}'" of all_containers
prune_images_used ==
  /\ pc = "i_used"
  /\ \E res \in Outcomes :
       LET lg == Append(log, Cmd("docker inspect", loc.all_containers, res))
           used == {hashfix(i) : i \in Stdout(res, {Render(containers[c].image, idForm.ref) :
                                                      c \in loc.all_containers})}
           l == [loc EXCEPT !.nominally_used_images = used]
       IN  IF Raises(res) THEN Propagate(lg) /\ cutoff' = cutoff
           ELSE InspectImagesOrSelect(l, lg)
  /\ UNCHANGED <<rt, cfg, harness, now>>

\* "docker image inspect --format
\* '{{.ID}}|{{.Parent}}|{{.Created}}|{{.RepoTags}}'" of all_images
prune_images_inspect ==
  /\ pc = "i_inspect"
  /\ \E res \in Outcomes :
       LET lg == Append(log, Cmd("docker image inspect", loc.all_images, res))
           lines == Stdout(res, {<<Render(Resolve(a), idForm.id),
                                   Render(images[Resolve(a)].parent, idForm.ref),
                                   images[Resolve(a)].created,
                                   FormatRepoTags(images[Resolve(a)].tags)>> : a \in loc.all_images})
           data == {ImageData(f[1], f[2], f[3], f[4]) : f \in lines}
           image_data == [k \in {i.id : i \in data} |-> CHOOSE i \in data : i.id = k]
           l == [loc EXCEPT !.image_data = image_data]
       IN  IF Raises(res) THEN Propagate(lg) /\ cutoff' = cutoff
           ELSE SelectImages(l, lg)
  /\ UNCHANGED <<rt, cfg, harness, now>>

\* The runtime refuses to delete, forced or not, an image that has a child
\* image which stays.
RmiConflict(ids) ==
  \E h \in LiveImages : images[h].parent \in {Resolve(i) : i \in ids}
                        /\ h \notin {Resolve(i) : i \in ids}

\* The lines "docker rmi" prints: "Untagged:" for each tag and "Deleted:" for
\* the image.
RECURSIVE RmiLines(_)
RmiLines(hs) ==
  IF hs = {} THEN 0
  ELSE LET h == CHOOSE x \in hs : TRUE
       IN  1 + Cardinality(images[h].tags) + RmiLines(hs \ {h})

\* "docker rmi -f" of pruneable_images
prune_images_rmi ==
  /\ pc = "i_rmi"
  /\ \E res \in Outcomes :
       LET lg == Append(log, Cmd("docker rmi -f", loc.pruneable_images, res))
           gone == {Resolve(i) : i \in loc.pruneable_images}
       IN  /\ RmiConflict(loc.pruneable_images) => res # "ok"
           /\ IF Raises(res) THEN Propagate(lg)
              ELSE Goto("i_ret", loc, IF res = "ok" THEN RmiLines(gone) ELSE 0, lg)
           /\ images' = IF res = "ok"
                        THEN [h \in ImageHexes |->
                                IF h \in gone THEN [images[h] EXCEPT !.status = "removed"]
                                ELSE images[h]]
                        ELSE images
  /\ UNCHANGED <<containers, networks, volumes, cfg, harness, now, cutoff>>

prune_images ==
  \/ prune_images_ls
  \/ prune_images_ps
  \/ prune_images_used
  \/ prune_images_inspect
  \/ prune_images_rmi

\* -------------------------------------------------------------------- main
\* parse_cli_args: Duration is applied to the grace period argument.  Its
\* ValueError ends the run before any command is issued.
main_parse ==
  /\ pc = "main"
  /\ grace' = Duration(argv)
  /\ IF grace'.ok THEN Goto("c_ls", loc, ret, log)
     ELSE Propagate(Append(log, Raised("ValueError")))
  /\ UNCHANGED <<rt, argv, aggressive, idForm, harness, now, cutoff>>

\* print_flush("{} pruned.".format(len(pruned_containers))) and the call of
\* the next procedure.
Report(from, step, to) ==
  /\ pc = from
  /\ Goto(to, EmptyLoc, ret, Append(log, Printed(step, ret)))
  /\ UNCHANGED <<rt, cfg, harness, now, cutoff>>

main_containers_pruned == Report("c_ret", "containers", "i_ls")
main_images_pruned == Report("i_ret", "images", "n_ls")
main_networks_pruned == Report("n_ret", "networks", "v_ls")
main_volumes_pruned == Report("v_ret", "volumes", "done")

main ==
  \/ main_parse
  \/ main_containers_pruned
  \/ main_images_pruned
  \/ main_networks_pruned
  \/ main_volumes_pruned

\* The clock advances while the program runs.
Tick ==
  /\ pc \notin {"done", "failed"}
  /\ now < MaxNow
  /\ now' = now + 1
  /\ UNCHANGED <<pc, rt, cfg, harness, loc, ret, cutoff, log>>

\* The timestamps of the records an age check looks at.
KeptStamps ==
  {containers[c].finished.t : c \in {d \in ContainerIds : containers[d].status = "exited"}}
    \cup {images[h].created.t : h \in LiveImages}
    \cup {networks[n].created.t : n \in LiveNetworks}
    \cup {volumes[v].created.t : v \in DanglingVolumes}

\* A procedure called on its own is called again when it has returned.
Entry(p) ==
  CASE p = "c_ret" -> "c_ls" [] p = "i_ret" -> "i_ls" [] p = "n_ret" -> "n_ls"
    [] p = "v_ret" -> "v_ls"

CallAgain ==
  /\ pc \in {"c_ret", "i_ret", "n_ret", "v_ret"}
  /\ runs < MaxRuns
  /\ runs' = runs + 1
  /\ mark' = [len |-> Len(log), cutoff |-> cutoff, kept |-> KeptStamps]
  /\ Goto(Entry(pc), EmptyLoc, ret, log)
  /\ UNCHANGED <<rt, cfg, now, cutoff>>

\* ------------------------------------------------------ the runtime's state
Rank(h) == CASE h = "" -> 0 [] h = "a" -> 1 [] h = "b" -> 2 [] h = "c" -> 3

AbsentContainer == [status |-> "absent", finished |-> Stamp("rfc3339", 0), image |-> "a"]
AbsentImage == [status |-> "absent", parent |-> "", created |-> Stamp("rfc3339", 0), tags |-> {}]
AbsentNetwork == [status |-> "absent", created |-> Stamp("goword", 0), attached |-> {},
                  name |-> "mynet"]
AbsentVolume == [status |-> "absent", created |-> Stamp("rfc3339", 0), dangling |-> FALSE]

NoContainers == [c \in ContainerIds |-> AbsentContainer]
NoImages == [h \in ImageHexes |-> AbsentImage]
NoNetworks == [n \in NetworkIds |-> AbsentNetwork]
NoVolumes == [v \in VolumeNames |-> AbsentVolume]

\* A running container's FinishedAt is the zero time or the end of an earlier
\* run; a stopped container's is any time.
ContainerRecords(hexes) ==
  {AbsentContainer}
    \cup {[status |-> "running", finished |-> Stamp("rfc3339", 0), image |-> h] : h \in hexes}
    \cup {[status |-> "exited", finished |-> Stamp("rfc3339", t), image |-> h] :
            t \in Times, h \in hexes}

\* An image is created long ago or, at the start, the two-minute grace period
\* of the image runs ago: the first is old and the second becomes old with
\* the clock's next tick.
ImageTimes == {0, Now0 - 2}

ImageRecords ==
  {AbsentImage}
    \cup {[status |-> "present", parent |-> p, created |-> Stamp("rfc3339", t), tags |-> g] :
            p \in ImageHexes \cup {""}, t \in ImageTimes, g \in {{}, {"app:latest"}}}

\* The parent of an image is an image of the store (the runtime deletes no
\* image that has a child), and parent links form no cycle.
ImageWorlds ==
  {w \in [ImageHexes -> ImageRecords] :
     \A h \in ImageHexes :
        w[h].status = "present" /\ w[h].parent # ""
          => Rank(w[h].parent) < Rank(h) /\ w[w[h].parent].status = "present"}

\* The image of a running container is in the store: the runtime deletes no
\* image a running container uses.  A stopped container's may be gone.
ContainerWorlds(hexes, w) ==
  {k \in [ContainerIds -> ContainerRecords(hexes)] :
     \A c \in ContainerIds : k[c].status = "running" => w[k[c].image].status = "present"}

NetworkRecords ==
  {AbsentNetwork}
    \cup {[status |-> "present", created |-> Stamp("goword", t), attached |-> a, name |-> n] :
            t \in Times, a \in {{}, {"c1"}}, n \in ReservedNames \cup {"mynet", "othernet"}}

NetworkWorlds ==
  {w \in [NetworkIds -> NetworkRecords] :
     \A m, n \in NetworkIds :
        m # n /\ w[m].status = "present" /\ w[n].status = "present" => w[m].name # w[n].name}

VolumeRecords ==
  {AbsentVolume}
    \cup {[status |-> "present", created |-> s, dangling |-> d] :
            s \in {Stamp("rfc3339", t) : t \in Times} \cup {Stamp("bad", 0)},
            d \in BOOLEAN}

VolumeWorlds == [VolumeNames -> VolumeRecords]

\* ----------------------------------------------------------- specifications
GraceArgs == {<<"1", "m">>, <<"2", "m">>}

Start(p) ==
  /\ pc = p
  /\ now = Now0
  /\ loc = EmptyLoc
  /\ ret = 0
  /\ cutoff = {}
  /\ log = << >>
  /\ runs = 1
  /\ mark = [len |-> 0, cutoff |-> {}, kept |-> {}]

\* prune_containers(grace) called on its own.
InitContainers ==
  /\ Start("c_ls")
  /\ argv \in GraceArgs /\ grace = Duration(argv) /\ aggressive = FALSE
  /\ idForm = [id |-> TRUE, ref |-> TRUE]
  /\ images = [NoImages EXCEPT !["a"].status = "present"]
  /\ containers \in ContainerWorlds({"a"}, images)
  /\ networks = NoNetworks /\ volumes = NoVolumes

\* prune_images(grace, aggressive) called on its own.
InitImages ==
  /\ Start("i_ls")
  /\ argv = <<"2", "m">> /\ grace = Duration(argv) /\ aggressive \in BOOLEAN
  /\ idForm \in [id : {TRUE}, ref : BOOLEAN]
  /\ images \in ImageWorlds
  /\ containers \in {k \in ContainerWorlds(ImageHexes, images) :
                       /\ k["c1"].status # "exited"
                       /\ k["c2"].status # "running"
                       /\ k["c2"].finished.t = 0
                       /\ k["c2"].image = "c"}
  /\ networks = NoNetworks /\ volumes = NoVolumes

\* prune_networks(grace) called on its own.
InitNetworks ==
  /\ Start("n_ls")
  /\ argv \in GraceArgs /\ grace = Duration(argv) /\ aggressive = FALSE
  /\ idForm = [id |-> TRUE, ref |-> TRUE]
  /\ images = NoImages /\ containers = NoContainers /\ volumes = NoVolumes
  /\ networks \in NetworkWorlds

\* prune_volumes(grace, aggressive) called on its own.
InitVolumes ==
  /\ Start("v_ls")
  /\ argv \in GraceArgs /\ grace = Duration(argv) /\ aggressive \in BOOLEAN
  /\ idForm = [id |-> TRUE, ref |-> TRUE]
  /\ images = NoImages /\ containers = NoContainers /\ networks = NoNetworks
  /\ volumes \in VolumeWorlds

InitProcedures == InitContainers \/ InitImages \/ InitNetworks \/ InitVolumes

NextProcedures ==
  \/ prune_containers
  \/ prune_images
  \/ prune_networks
  \/ prune_volumes
  \/ CallAgain
  \/ Tick

SpecProcedures == InitProcedures /\ [][NextProcedures]_vars

\* Duration applied to every string of at most MaxLen characters.
InitDuration ==
  /\ Start("main")
  /\ argv \in DurationArgs(MaxLen) /\ grace = NoDuration /\ aggressive = FALSE
  /\ idForm = [id |-> TRUE, ref |-> TRUE]
  /\ images = NoImages /\ containers = NoContainers
  /\ networks = NoNetworks /\ volumes = NoVolumes

SpecDuration == InitDuration /\ [][main_parse]_vars

\* A run of main.  The inventory is small: at most one container, image,
\* network and volume, the volume's CreatedAt possibly no timestamp.
MainArgs == {<<"2", "m">>, <<"2">>}

Init ==
  /\ Start("main")
  /\ argv \in MainArgs /\ grace = NoDuration /\ aggressive \in BOOLEAN
  /\ idForm = [id |-> TRUE, ref |-> TRUE]
  /\ images \in {w \in ImageWorlds : w["b"] = AbsentImage /\ w["c"] = AbsentImage}
  /\ containers \in {k \in ContainerWorlds({"a"}, images) :
                       k["c2"] = AbsentContainer /\ k["c1"].finished.t \in ImageTimes}
  /\ networks \in {w \in NetworkWorlds :
                     /\ w["n2"] = AbsentNetwork
                     /\ w["n1"].created.t = 0
                     /\ w["n1"].name \in {"bridge", "mynet"}}
  /\ volumes \in {w \in VolumeWorlds :
                    /\ w[NameShort] = AbsentVolume /\ w[Name63] = AbsentVolume
                    /\ w[Name64].created.t = 0
                    /\ w[Name64].status = "present" => w[Name64].dangling}

Next ==
  \/ main
  \/ prune_containers
  \/ prune_images
  \/ prune_networks
  \/ prune_volumes
  \/ Tick

Spec == Init /\ [][Next]_vars

\* ------------------------------------------------------------------ claims
DeleteCmds == {"docker rm", "docker rmi -f", "docker network rm", "docker volume rm -f"}
IsDelete(e) == e.ev = "cmd" /\ e.cmd \in DeleteCmds
IsFailure(e) == e.ev = "raise" \/ (e.ev = "cmd" /\ e.res # "ok")

\* The command this step issues is c.
Issues(c) ==
  /\ Len(log') > Len(log)
  /\ log'[Len(log) + 1].ev = "cmd"
  /\ log'[Len(log) + 1].cmd = c
IssuedArgs == log'[Len(log) + 1].args

\* The runtime's own view of the images in use: the image of every container
\* and the images its parent links lead to.
RECURSIVE Ancestry(_)
Ancestry(h) == {h} \cup (IF images[h].parent # "" THEN Ancestry(images[h].parent) ELSE {})
InUse == UNION {Ancestry(containers[c].image) : c \in LiveContainers}

\* The instant older_than compared the records with.
OlderThanCutoff(t) == \A c \in cutoff : t < c

\* A step that issues the deletion of images spares the images in use.
SparesUsedImages ==
  Issues("docker rmi -f") => \A i \in IssuedArgs : Resolve(i) \notin InUse

\* C1: prune_images never passes to "docker rmi" an image that a container,
\* running or stopped, was made from, nor an ancestor of such an image at any
\* depth, whether the runtime prints identifiers with the sha256: prefix or
\* without it, in aggressive mode or not.
C1_UsedImagesAreSpared == [][SparesUsedImages]_vars

\* prune_images has returned on a store where container c1 uses image c,
\* whose parent is b, whose parent is a; all three are old, the runtime
\* prints the references bare and the identifiers prefixed, the mode is
\* aggressive, and no deletion was issued.
C1_Witness ==
  /\ pc = "i_ret" /\ aggressive /\ ~idForm.ref
  /\ containers["c1"].status = "running" /\ containers["c1"].image = "c"
  /\ images["c"].parent = "b" /\ images["b"].parent = "a"
  /\ \A h \in ImageHexes : images[h].status = "present" /\ images[h].created.t = 0
  /\ \A i \in 1..Len(log) : ~IsDelete(log[i])

\* What the claim says prune_images selects, from the runtime's state.
ExpectedImages ==
  {h \in LiveImages :
     /\ images[h].created.t < now - grace.minutes
     /\ h \notin InUse
     /\ aggressive \/ images[h].tags = {}}

SelectsExpectedImages ==
  pc \in {"i_ps", "i_used", "i_inspect"} /\ pc' \in {"i_rmi", "i_ret"}
    => {Resolve(i) : i \in loc'.pruneable_images} = ExpectedImages

\* C2: prune_images selects exactly the old images that are not in use and,
\* unless aggressive, have no tag (an empty RepoTags in the output of the
\* image inspection): of A, untagged and used by a running container, B,
\* untagged, old, unused, with parent A, and C, tagged, old, unused, it selects
\* B when not aggressive and B and C when aggressive.
C2_SelectsOldUnusedUntagged == [][SelectsExpectedImages]_vars

\* The timestamp of the record an identifier given to a deletion command names.
StampOf(c, a) ==
  CASE c = "docker rm" -> containers[a].finished
    [] c = "docker rmi -f" -> images[Resolve(a)].created
    [] c = "docker network rm" -> networks[a].created
    [] c = "docker volume rm -f" -> volumes[a].created

DeletesOnlyOld ==
  \A c \in DeleteCmds :
    Issues(c) => cutoff # {} /\ \A a \in IssuedArgs : OlderThanCutoff(StampOf(c, a).t)

\* C3: every identifier passed to a deletion command is that of a record
\* whose timestamp was strictly earlier than now minus the grace period when
\* older_than was evaluated.
C3_OnlyOldAreDeleted == [][DeletesOnlyOld]_vars

\* prune_containers removed a container and kept one that had finished
\* exactly the grace period before the clock's reading.
C3_Witness ==
  /\ pc = "c_ret"
  /\ \E c \in ContainerIds : containers[c].status = "removed"
  /\ \E c \in ContainerIds : containers[c].status = "exited" /\ containers[c].finished.t \in cutoff

\* <digits><unit>
WellFormed(s) ==
  /\ Len(s) >= 2
  /\ \A i \in 1..(Len(s) - 1) : s[i] \in Digits
  /\ s[Len(s)] \in Units

\* C4: Duration accepts exactly the strings <digits><unit>, unit m or h, and
\* returns that many minutes or hours; every other string is a ValueError.
C4_AcceptsExactlyDigitsUnit ==
  pc # "main" =>
    /\ grace.ok <=> WellFormed(argv)
    /\ grace.ok =>
         grace.minutes = (IF argv[Len(argv)] = "m" THEN 1 ELSE 60)
                           * int(SubSeq(argv, 1, Len(argv) - 1))

\* What the claim says prune_networks selects, from the runtime's state.
ExpectedNetworks ==
  {n \in LiveNetworks :
     /\ networks[n].created.t < now - grace.minutes
     /\ networks[n].attached = {}
     /\ networks[n].name \notin {"bridge", "host", "none"}}

SelectsExpectedNetworks ==
  /\ pc = "n_inspect" /\ pc' \in {"n_rm", "n_ret"}
       => loc'.prunable_networks = ExpectedNetworks /\ (pc' = "n_rm" <=> ExpectedNetworks # {})
  /\ pc = "n_ls" /\ pc' = "n_ret" => ExpectedNetworks = {}
  /\ Issues("docker network rm") => IssuedArgs = loc.prunable_networks

\* C5: prune_networks passes to "docker network rm" exactly the networks that
\* are older than the grace period, have no container attached and have none
\* of the reserved names; with none such it issues no deletion.
C5_NetworksSelected == [][SelectsExpectedNetworks]_vars

\* prune_networks removed a network and kept an old one without containers
\* named bridge.
C5_Witness ==
  /\ pc = "n_ret"
  /\ \E n \in NetworkIds : networks[n].status = "removed"
  /\ \E n \in NetworkIds :
       /\ networks[n].status = "present" /\ networks[n].name = "bridge"
       /\ networks[n].attached = {} /\ OlderThanCutoff(networks[n].created.t)

\* What the claim says prune_volumes selects, from the runtime's state.
ExpectedVolumes ==
  {v \in DanglingVolumes :
     /\ volumes[v].created.t < now - grace.minutes
     /\ aggressive \/ Len(v) >= 64}

SelectsExpectedVolumes ==
  /\ Issues("docker volume inspect") => IssuedArgs = DanglingVolumes
  /\ pc = "v_inspect" /\ pc' \in {"v_rm", "v_ret"}
       => loc'.to_prune = ExpectedVolumes /\ (pc' = "v_rm" <=> ExpectedVolumes # {})
  /\ pc = "v_ls" /\ pc' = "v_ret" => ExpectedVolumes = {}
  /\ Issues("docker volume rm -f") => IssuedArgs = loc.to_prune

\* C6: prune_volumes inspects the dangling volumes only and passes to "docker
\* volume rm" exactly those older than the grace period and, unless
\* aggressive, with a name of 64 characters or more.
C6_VolumesSelected == [][SelectsExpectedVolumes]_vars

\* Not aggressive, prune_volumes removed the volume with the 64 character
\* name and kept my-data and the volume with the 63 character name, both old
\* and dangling; a volume in use was not looked at.
C6_Witness ==
  /\ pc = "v_ret" /\ ~aggressive
  /\ volumes[Name64].status = "removed"
  /\ \A v \in {NameShort, Name63} :
       /\ volumes[v].status = "present" /\ volumes[v].dangling
       /\ OlderThanCutoff(volumes[v].created.t)

\* What the claim says prune_containers selects, from its two listings.
ExpectedContainers ==
  {c \in loc.all_containers \ loc.running_containers :
     containers[c].finished.t < now - grace.minutes}

RmCalls == {i \in (mark.len + 1)..Len(log) : log[i].ev = "cmd" /\ log[i].cmd = "docker rm"}

SelectsExpectedContainers ==
  /\ pc = "c_lsa" /\ pc' \in {"c_inspect", "c_ret"}
       => /\ loc'.non_running = loc'.all_containers \ loc'.running_containers
          /\ pc' = "c_inspect" <=> loc'.non_running # {}
  /\ Issues("docker container inspect") => IssuedArgs = loc.non_running
  /\ pc = "c_inspect" /\ pc' \in {"c_rm", "c_ret"}
       => loc'.to_prune = ExpectedContainers /\ (pc' = "c_rm" <=> ExpectedContainers # {})
  /\ Issues("docker rm")
       => IssuedArgs = loc.to_prune /\ IssuedArgs \cap loc.running_containers = {}
  /\ Cardinality(RmCalls') <= 1

\* C7: prune_containers passes to one "docker rm" (no -f) exactly the
\* containers listed by "ls -a" and not by "ls" whose FinishedAt is older than
\* the grace period, never a listed running one, and inspects nothing when
\* all listed containers are running.
C7_ContainersSelected == [][SelectsExpectedContainers]_vars

\* prune_containers removed a stopped container while another was running.
C7_Witness ==
  /\ pc = "c_ret"
  /\ \E c \in ContainerIds : containers[c].status = "removed"
  /\ \E c \in ContainerIds : containers[c].status = "running"

\* The step of main a command belongs to, and the counts printed so far.
Steps == <<"containers", "images", "networks", "volumes">>
StepOfCmd(c) ==
  CASE c \in {"docker container ls -q --no-trunc", "docker container ls -a -q --no-trunc",
              "docker container inspect", "docker rm"} -> 1
    [] c \in {"docker image ls -a -q --no-trunc", "docker ps -a -q --no-trunc",
              "docker inspect", "docker image inspect", "docker rmi -f"} -> 2
    [] c \in {"docker network ls -q --no-trunc", "docker network inspect",
              "docker network rm"} -> 3
    [] c \in {"docker volume ls -q -f dangling=true", "docker volume inspect",
              "docker volume rm -f"} -> 4
PrintsBefore(j) == Cardinality({i \in 1..(j - 1) : log[i].ev = "print"})

\* C8: main runs the procedures in the order containers, images, networks,
\* volumes, each after the count of the one before was printed, and the first
\* failure (a command timing out or exiting non-zero, an exception) is the
\* last thing that happens: no command and no count follows it.
C8_OrderedAndFailFast ==
  /\ \A j \in 1..Len(log) :
       /\ log[j].ev = "cmd" => StepOfCmd(log[j].cmd) = PrintsBefore(j) + 1
       /\ log[j].ev = "print" => PrintsBefore(j) < 4 /\ log[j].cmd = Steps[PrintsBefore(j) + 1]
       /\ IsFailure(log[j]) => j = Len(log)
  /\ pc = "failed" <=> (log # << >> /\ IsFailure(log[Len(log)]))
  /\ pc = "done" => PrintsBefore(Len(log) + 1) = 4

\* The run failed on a timeout in prune_networks, after the counts of
\* containers and images were printed.
C8_Witness ==
  /\ pc = "failed"
  /\ PrintsBefore(Len(log) + 1) = 2
  /\ log[Len(log)].ev = "cmd" /\ log[Len(log)].res = "timeout"
  /\ StepOfCmd(log[Len(log)].cmd) = 3

\* No stopped container, no image, no network, no dangling volume.
EmptyInventory ==
  /\ \A c \in ContainerIds : containers[c].status \in {"absent", "running"}
  /\ \A h \in ImageHexes : images[h].status = "absent"
  /\ \A n \in NetworkIds : networks[n].status = "absent"
  /\ \A v \in VolumeNames : volumes[v].status = "absent" \/ ~volumes[v].dangling

\* C9: a procedure issues no deletion command for an empty set and then
\* returns the empty tuple; with no stopped container, no image, no network
\* and no dangling volume, a run whose commands succeed issues no deletion,
\* raises nothing, prints 0 four times and ends.
C9_NothingToPrune ==
  /\ \A j \in 1..Len(log) :
       /\ IsDelete(log[j]) => log[j].args # {}
       /\ log[j].ev = "print" /\ log[j].n > 0
            => \E i \in 1..(j - 1) : IsDelete(log[i]) /\ log[i].res = "ok"
                                     /\ Steps[StepOfCmd(log[i].cmd)] = log[j].cmd
  /\ EmptyInventory /\ Duration(argv).ok =>
       /\ \A j \in 1..Len(log) :
            ~IsDelete(log[j]) /\ log[j].ev # "raise" /\ log[j].n = 0
       /\ pc = "done" => PrintsBefore(Len(log) + 1) = 4
       /\ pc = "failed" => log[Len(log)].ev = "cmd" /\ log[Len(log)].res # "ok"

\* A run on the empty inventory has ended, with four counts printed.
C9_Witness ==
  /\ EmptyInventory /\ pc = "done"
  /\ PrintsBefore(Len(log) + 1) = 4

\* The deletion commands issued since the procedure was called again.
DeletesSinceCalledAgain == {i \in (mark.len + 1)..Len(log) : IsDelete(log[i])}

\* C10: a procedure called twice in succession, with nothing changed in the
\* runtime but what its first call removed, issues no deletion command in the
\* second call.
C10_SecondCallDeletesNothing == runs >= 2 => DeletesSinceCalledAgain = {}

\* No record the first call kept was younger than the grace period at the
\* first call's age check and is older at the second's.
NoneGrewOld ==
  \A first \in mark.cutoff, second \in cutoff :
     \A t \in mark.kept : ~(first <= t /\ t < second)

\* C10, amended: a procedure called twice in succession, with nothing changed
\* in the runtime but what its first call removed, issues no deletion command
\* in the second call, provided no record the first call kept has reached
\* the grace period between the age checks of the two calls.
C10_SecondCallDeletesNothingUnlessGrownOld ==
  runs >= 2 /\ NoneGrewOld => DeletesSinceCalledAgain = {}

\* prune_containers, called again after the clock moved, has returned: its
\* first call removed a container, and the container it kept is still
\* younger than the grace period at the second age check.
C10_Witness ==
  /\ runs = 2 /\ pc = "c_ret"
  /\ \E i \in 1..mark.len : IsDelete(log[i]) /\ log[i].res = "ok"
  /\ \E i \in (mark.len + 1)..Len(log) : log[i].cmd = "docker container inspect"
  /\ cutoff # mark.cutoff /\ NoneGrewOld
  /\ \E c \in ContainerIds : containers[c].status = "exited"

====
